---------------------------- MODULE Spec2Model ----------------------------
(***************************************************************************)
(* Model of two netlist passes of the yosys fork:                          *)
(*   opt_merge_wires  (src/passes/opt/opt_merge_wires.cc)                  *)
(*   tribuf           (src/passes/techmap/tribuf.cc)                       *)
(*                                                                         *)
(* A SigBit is a pair <<wire, offset>>; wire 0 is the constant pseudo wire *)
(* (<<0,0>> = 1'b0, <<0,1>> = 1'b1, <<0,2>> = x, <<0,3>> = z).  A SigSpec  *)
(* is a sequence of SigBits, least significant bit first.                  *)
(***************************************************************************)
EXTENDS Integers, Sequences, FiniteSets, TLC

VARIABLES
    wires,            \* module->wires(): wire id -> [width, port_input, port_output, public]
    cells,            \* module->cells(): cell id -> [type, A, B, S, EN, Y, WIDTH]
    conns,            \* module->connections_: sequence of <<lhs, rhs>>
    pc,               \* position of the running pass
    orig_cells,       \* cells of the module when the current run started
    orig_conns,       \* connections of the module when the current run started
    sigmap,           \* opt_merge_wires: the classes of its SigMap
    repmap,           \* opt_merge_wires: sigbit_to_representative_sigbit
    changed_wires,    \* opt_merge_wires: changed_wires counter
    did_something,    \* scratchpad opt.did_something
    run,              \* opt_merge_wires: 1 in the first run, 2 in the second
    config,           \* tribuf: TribufConfig
    know_muxes,       \* tribuf: know_muxes, bit -> cells reading it as mux/tri-state data
    driving_cells,    \* tribuf: driving_cells, bit -> cells driving it
    tribuf_signals,   \* tribuf: tribuf_signals of run()
    added_tribufs,    \* tribuf: worklist filled in the current round
    current_tribufs,  \* tribuf: bits of the current round not yet visited
    it,               \* tribuf: the worklist bit being propagated
    tribuf,           \* tribuf: the cell driving it
    readers,          \* tribuf: cells of know_muxes.at(it) not yet visited
    merge_todo,       \* tribuf: bits the final merge loop has not visited
    added_something,  \* scratchpad tribuf.added_something
    next_cell,        \* next fresh cell id (NEW_ID)
    rounds            \* tribuf: rounds of the propagation loop started

modVars == <<wires, cells, conns>>
mwVars  == <<sigmap, repmap, changed_wires, did_something, run>>
tbVars  == <<config, know_muxes, driving_cells, tribuf_signals, added_tribufs,
             current_tribufs, it, tribuf, readers, merge_todo, added_something,
             next_cell, rounds>>
vars    == <<wires, cells, conns, pc, orig_cells, orig_conns,
             sigmap, repmap, changed_wires, did_something, run,
             config, know_muxes, driving_cells, tribuf_signals, added_tribufs,
             current_tribufs, it, tribuf, readers, merge_todo, added_something,
             next_cell, rounds>>

---------------------------------------------------------------------------
(* Bounds of the model *)

\* widest wire of the generated merge-wires modules
MaxWidth == 3
\* longest connection list of the generated merge-wires modules
MaxConns == 2

---------------------------------------------------------------------------
(* SigBit / SigSpec *)

S0 == <<0, 0>>
S1 == <<0, 1>>
Sx == <<0, 2>>
Sz == <<0, 3>>

IsWireBit(b) == b[1] # 0

WireSig(w, n) == [i \in 1..n |-> <<w, i - 1>>]

SeqSet(s) == {s[i] : i \in 1..Len(s)}

\* SigSpec::replace(dict): every bit that is a key of rules becomes its value
Replace(sig, rules) ==
    [i \in 1..Len(sig) |-> IF sig[i] \in DOMAIN rules THEN rules[sig[i]] ELSE sig[i]]

\* the positions of sig that satisfy keep, in order
RECURSIVE KeepIdx(_, _, _)
KeepIdx(sig, keep, i) ==
    IF i > Len(sig) THEN <<>>
    ELSE (IF i \in keep THEN <<sig[i]>> ELSE <<>>) \o KeepIdx(sig, keep, i + 1)

---------------------------------------------------------------------------
(* Cells *)

\* TribufConfig(): every flag off
NoConfig ==
    [merge_mode |-> FALSE, logic_mode |-> FALSE, formal_mode |-> FALSE,
     propagate |-> FALSE, force |-> FALSE]

NoPort == <<>>

\* a cell: its type, its ports, its WIDTH parameter and its keep attribute
Cell(t, a, b, s, en, y, w) ==
    [type |-> t, A |-> a, B |-> b, S |-> s, EN |-> en, Y |-> y, WIDTH |-> w,
     keep |-> FALSE]

PortNames == {"A", "B", "S", "EN", "Y"}

\* mutant of ReplaceCell: the output port is left as it was
ReplaceCell_SkipY(c, rules) ==
    [c EXCEPT !.A = Replace(@, rules), !.B = Replace(@, rules), !.S = Replace(@, rules),
              !.EN = Replace(@, rules)]

\* apply rules to every port of a cell
ReplaceCell(c, rules) ==
    [c EXCEPT !.A = Replace(@, rules), !.B = Replace(@, rules), !.S = Replace(@, rules),
              !.EN = Replace(@, rules), !.Y = Replace(@, rules)]

\* every bit of every port of every cell
CellPortBits(cs) ==
    UNION {SeqSet(cs[c].A) \cup SeqSet(cs[c].B) \cup SeqSet(cs[c].S)
           \cup SeqSet(cs[c].EN) \cup SeqSet(cs[c].Y) : c \in DOMAIN cs}

---------------------------------------------------------------------------
(* opt_merge_wires: the SigMap the pass builds *)

\* mutant of AllWireConn: no connection is skipped
AllWireConn_NoSkip(conn) == TRUE

\* a connection none of whose positions holds a constant (the test before
\* "goto skip_connection")
AllWireConn(conn) ==
    \A i \in 1..Len(conn[1]) : IsWireBit(conn[1][i]) /\ IsWireBit(conn[2][i])

\* the bit pairs opt_merge_wires hands to sigmap.add: every position of every
\* connection that is not skipped
AddedPairs(cs) ==
    UNION {{<<cs[k][1][i], cs[k][2][i]>> : i \in 1..Len(cs[k][1])} :
           k \in {k \in 1..Len(cs) : AllWireConn(cs[k])}}

\* the bits reachable from the bits of S over pairs, in either direction
RECURSIVE Grow(_, _)
Grow(S, pairs) ==
    LET N == S \cup {e[2] : e \in {e \in pairs : e[1] \in S}}
               \cup {e[1] : e \in {e \in pairs : e[2] \in S}}
    IN  IF N = S THEN S ELSE Grow(N, pairs)

\* SigMap after the add calls: the classes of the bits in its database
SigMapClasses(pairs) ==
    LET bits == {e[1] : e \in pairs} \cup {e[2] : e \in pairs}
    IN  {Grow({b}, pairs) : b \in bits}

\* sigmap(bit): the class stands for its root; a bit that is not in the
\* database is its own root
Canon(classes, b) ==
    IF \E c \in classes : b \in c THEN CHOOSE c \in classes : b \in c ELSE {b}

\* sigmap.allbits(): the wire bits of the database
AllBits(classes) == {b \in UNION classes : IsWireBit(b)}

---------------------------------------------------------------------------
(* opt_merge_wires: choice of the representatives *)

\* the order the bits entered the SigMap's database: sigmap.add looks up
\* lhs[i], then rhs[i], position by position, connection by connection
RECURSIVE Interleave(_, _, _)
Interleave(lhs, rhs, i) ==
    IF i > Len(lhs) THEN <<>> ELSE <<lhs[i], rhs[i]>> \o Interleave(lhs, rhs, i + 1)

RECURSIVE DatabaseOrder(_, _)
DatabaseOrder(cs, k) ==
    IF k > Len(cs) THEN <<>>
    ELSE (IF AllWireConn(cs[k]) THEN Interleave(cs[k][1], cs[k][2], 1) ELSE <<>>)
         \o DatabaseOrder(cs, k + 1)

\* the bit of S met first when a pool filled in that order is iterated
FirstIn(order, S) ==
    LET pos(b) == CHOOSE i \in 1..Len(order) :
                     order[i] = b /\ \A j \in 1..(i - 1) : order[j] # b
    IN  CHOOSE b \in S : \A c \in S : pos(b) <= pos(c)

\* the bits of a component the three loops look at: the input-port bits, else
\* the bits of public wires, else every bit
Candidates(ws, comp) ==
    LET ins  == {b \in comp : ws[b[1]].port_input}
        pubs == {b \in comp : ws[b[1]].public}
    IN  IF ins # {} THEN ins ELSE IF pubs # {} THEN pubs ELSE comp

\* representative_sigbit of a component: the first candidate in pool order
Representative(ws, order, comp) == FirstIn(order, Candidates(ws, comp))

\* components_map: the wire bits of each class
Components(classes) == {c \cap AllBits(classes) : c \in classes} \ {{}}

\* sigbit_to_representative_sigbit for one choice of representatives
RepMapOf(comps, choice) ==
    [b \in UNION {c \ {choice[c]} : c \in comps} |->
        choice[CHOOSE c \in comps : b \in c]]

---------------------------------------------------------------------------
(* opt_merge_wires: connections *)

\* "remove sigbits connected to themselves": the positions that stay
KeptPositions(classes, conn) ==
    {i \in 1..Len(conn[1]) : Canon(classes, conn[1][i]) # Canon(classes, conn[2][i])}

CleanConn(classes, conn) ==
    LET keep == KeptPositions(classes, conn)
    IN  <<KeepIdx(conn[1], keep, 1), KeepIdx(conn[2], keep, 1)>>

\* number of connections that lost a position
ChangedCount(classes, cs) ==
    Cardinality({k \in 1..Len(cs) : KeptPositions(classes, cs[k]) # 1..Len(cs[k][1])})

\* std::remove_if(... conn.first.empty())
NonEmptyConn(conn) == Len(conn[1]) > 0

\* the comparator of std::sort: member wire (pointer order, modelled by the
\* wire id), then offset of the representative
SortLess(p, q) ==
    IF p[1][1] # q[1][1] THEN p[1][1] < q[1][1] ELSE p[2][2] < q[2][2]

\* every order std::sort can leave the pairs in
RECURSIVE SortedSeqs(_)
SortedSeqs(pairs) ==
    IF pairs = {} THEN {<<>>}
    ELSE LET mins == {p \in pairs : \A q \in pairs : ~SortLess(q, p)}
         IN  UNION {{<<p>> \o t : t \in SortedSeqs(pairs \ {p})} : p \in mins}

\* Coalesce without the i++ of line 208: a pair that starts a new run
\* overwrites the run before it
RECURSIVE Coalesce_NoAdvance(_, _, _)
Coalesce_NoAdvance(v, j, acc) ==
    IF j > Len(v) THEN acc
    ELSE LET last == acc[Len(acc)]
             first_same  == last[1][1][1] = v[j][1][1]
             second_same == last[2][1][1] = v[j][2][1]
         IN  IF first_same /\ second_same
             THEN Coalesce_NoAdvance(v, j + 1,
                     [acc EXCEPT ![Len(acc)] = <<last[1] \o <<v[j][1]>>, last[2] \o <<v[j][2]>>>>])
             ELSE Coalesce_NoAdvance(v, j + 1,
                     [acc EXCEPT ![Len(acc)] = <<<<v[j][1]>>, <<v[j][2]>>>>])

\* "merge consecutive sigbits in sigspecs if they connect the same wires"
RECURSIVE Coalesce(_, _, _)
Coalesce(v, j, acc) ==
    IF j > Len(v) THEN acc
    ELSE LET last == acc[Len(acc)]
             first_same  == last[1][1][1] = v[j][1][1]
             second_same == last[2][1][1] = v[j][2][1]
         IN  IF first_same /\ second_same
             THEN Coalesce(v, j + 1,
                     [acc EXCEPT ![Len(acc)] = <<last[1] \o <<v[j][1]>>, last[2] \o <<v[j][2]>>>>])
             ELSE Coalesce(v, j + 1, Append(acc, <<<<v[j][1]>>, <<v[j][2]>>>>))

\* the connections emitted for a sorted vector of <<member, representative>>
Emitted(v) ==
    IF Len(v) = 0 THEN <<>>
    ELSE Coalesce(v, 2, <<<<<<v[1][1]>>, <<v[1][2]>>>>>>)

---------------------------------------------------------------------------
(* opt_merge_wires: the modules the pass is run on *)

\* wires 1, 2 are input ports, 3, 4 have public names, 5 is a "$" wire
MWInputs  == {1, 2}
MWPublic  == {1, 2, 3, 4}
MWWireIds == {1, 2, 3, 4, 5}

MWWires ==
    [w \in MWWireIds |->
        [width |-> MaxWidth, port_input |-> w \in MWInputs, port_output |-> FALSE,
         public |-> w \in MWPublic]]

MWCells ==
    (1 :> Cell("mux", WireSig(1, MaxWidth), WireSig(2, MaxWidth), <<S1>>, NoPort,
               WireSig(3, MaxWidth), MaxWidth))
    @@ (2 :> Cell("not", WireSig(4, MaxWidth), NoPort, NoPort, NoPort,
                  WireSig(5, MaxWidth), MaxWidth))

\* one-bit connections  w[0] <- v[0]  and  w[0] <- 1'b0
NarrowConns ==
    {<<<<(<<w, 0>>)>>, <<r>>>> :
        w \in MWWireIds, r \in {<<v, 0>> : v \in MWWireIds} \cup {S0}}

\* whole-wire connections  w <- v
WideConns ==
    {<<WireSig(w, MaxWidth), WireSig(v, MaxWidth)>> : w \in MWWireIds, v \in MWWireIds}

\* whole-wire connections whose right side holds a constant at position 0
MixedConns ==
    {<<WireSig(w, MaxWidth), [WireSig(v, MaxWidth) EXCEPT ![1] = S0]>> :
        w \in MWWireIds, v \in MWWireIds}

\* whole-wire connections  w <- {.., a[2], b[1], a[0]}  whose right side takes
\* its bits in turn from the two input ports
InterleavedConns ==
    {<<WireSig(p[1], MaxWidth),
       [i \in 1..MaxWidth |-> IF i % 2 = 1 THEN <<p[2], i - 1>> ELSE <<p[3], i - 1>>]>> :
        p \in {q \in (MWWireIds \ MWInputs) \X MWInputs \X MWInputs : q[2] # q[3]}}

ConnPool ==
    {c \in NarrowConns \cup WideConns \cup MixedConns \cup InterleavedConns : c[1] # c[2]}

ConnLists == UNION {[1..n -> ConnPool] : n \in 1..MaxConns}

InitMW ==
    /\ wires = MWWires
    /\ cells = MWCells
    /\ conns \in ConnLists
    /\ pc = "mw_sigmap"
    /\ orig_cells = cells
    /\ orig_conns = conns
    /\ sigmap = {}
    /\ repmap = <<>>
    /\ changed_wires = 0
    /\ did_something = FALSE
    /\ run = 1
    /\ config = NoConfig
    /\ know_muxes = <<>>
    /\ driving_cells = <<>>
    /\ tribuf_signals = {}
    /\ added_tribufs = {}
    /\ current_tribufs = {}
    /\ it = S0
    /\ tribuf = 0
    /\ readers = {}
    /\ merge_todo = {}
    /\ added_something = FALSE
    /\ next_cell = 3
    /\ rounds = 0

---------------------------------------------------------------------------
(* opt_merge_wires: the steps of execute() *)

\* lines 56-67: build the SigMap from the connections without constants
MW_BuildSigMap ==
    /\ pc = "mw_sigmap"
    /\ sigmap' = SigMapClasses(AddedPairs(conns))
    /\ pc' = "mw_representatives"
    /\ UNCHANGED <<modVars, orig_cells, orig_conns, repmap, changed_wires, did_something, run, tbVars>>

\* lines 77-110: pick a representative per component
MW_ChooseRepresentatives ==
    /\ pc = "mw_representatives"
    /\ LET comps  == Components(sigmap)
           order  == DatabaseOrder(conns, 1)
           choice == [c \in comps |-> Representative(wires, order, c)]
       IN  repmap' = RepMapOf(comps, choice)
    /\ pc' = "mw_cells"
    /\ UNCHANGED <<modVars, orig_cells, orig_conns, sigmap, changed_wires, did_something, run, tbVars>>

\* lines 113-123: rewrite every port of every cell
MW_MapCells ==
    /\ pc = "mw_cells"
    /\ cells' = [c \in DOMAIN cells |-> ReplaceCell(cells[c], repmap)]
    /\ pc' = "mw_clean"
    /\ UNCHANGED <<wires, conns, orig_cells, orig_conns, mwVars, tbVars>>

\* lines 130-157: drop the positions that connect a class to itself, count
\* the connections that changed, erase the empty connections
MW_CleanConnections ==
    /\ pc = "mw_clean"
    /\ conns' = SelectSeq([k \in 1..Len(conns) |-> CleanConn(sigmap, conns[k])], NonEmptyConn)
    /\ changed_wires' = changed_wires + ChangedCount(sigmap, conns)
    /\ pc' = "mw_map_conns"
    /\ UNCHANGED <<wires, cells, orig_cells, orig_conns, sigmap, repmap, did_something, run, tbVars>>

\* lines 160-170: rewrite both sides of the connections that are left
MW_MapConnections ==
    /\ pc = "mw_map_conns"
    /\ conns' = [k \in 1..Len(conns) |->
                    <<Replace(conns[k][1], repmap), Replace(conns[k][2], repmap)>>]
    /\ pc' = "mw_emit"
    /\ UNCHANGED <<wires, cells, orig_cells, orig_conns, mwVars, tbVars>>

\* lines 176-228: sort the member/representative pairs, pack them, connect
MW_Emit ==
    /\ pc = "mw_emit"
    /\ \E v \in SortedSeqs({<<b, repmap[b]>> : b \in DOMAIN repmap}) :
          conns' = conns \o Emitted(v)
    /\ pc' = "mw_finish"
    /\ UNCHANGED <<wires, cells, orig_cells, orig_conns, mwVars, tbVars>>

\* lines 233-235: the scratchpad flag
MW_Finish ==
    /\ pc = "mw_finish"
    /\ did_something' = (did_something \/ changed_wires > 0)
    /\ pc' = "mw_done"
    /\ UNCHANGED <<modVars, orig_cells, orig_conns, sigmap, repmap, changed_wires, run, tbVars>>

\* the pass is run again on the module it produced
MW_RunAgain ==
    /\ pc = "mw_done"
    /\ run = 1
    /\ run' = 2
    /\ orig_cells' = cells
    /\ orig_conns' = conns
    /\ sigmap' = {}
    /\ repmap' = <<>>
    /\ changed_wires' = 0
    /\ did_something' = FALSE
    /\ pc' = "mw_sigmap"
    /\ UNCHANGED <<modVars, tbVars>>

NextMW ==
    \/ MW_BuildSigMap
    \/ MW_ChooseRepresentatives
    \/ MW_MapCells
    \/ MW_CleanConnections
    \/ MW_MapConnections
    \/ MW_Emit
    \/ MW_Finish
    \/ MW_RunAgain

SpecMergeWires == InitMW /\ [][NextMW]_vars

---------------------------------------------------------------------------
(* opt_merge_wires: properties *)

\* the bit a reference to b is rewritten to
Rep(b) == IF b \in DOMAIN repmap THEN repmap[b] ELSE b

\* the positions <<cell, port, index>> of the cell ports of the run's input
PortPositions ==
    {<<c, p, i>> \in (DOMAIN orig_cells) \X PortNames \X (1..MaxWidth) :
        i <= Len(orig_cells[c][p])}

\* the equivalence the connections of the run's input generate position by
\* position: lhs[i] ~ rhs[i] wherever both are wire bits
WirePairs(cs) ==
    UNION {{<<cs[k][1][i], cs[k][2][i]>> :
              i \in {i \in 1..Len(cs[k][1]) : IsWireBit(cs[k][1][i]) /\ IsWireBit(cs[k][2][i])}} :
           k \in 1..Len(cs)}

\* the positions <<k, i>> of connection list cs that tie a wire bit to a constant
ConstPositions(cs) ==
    {<<k, i>> \in (1..Len(cs)) \X (1..MaxWidth) :
        i <= Len(cs[k][1]) /\ IsWireBit(cs[k][1][i]) /\ ~IsWireBit(cs[k][2][i])}

\* C5: merge-wires is idempotent: the second run leaves cell ports and the
\* connection list as the first run produced them.
C5_Idempotent ==
    (pc = "mw_done" /\ run = 2) => (cells = orig_cells /\ conns = orig_conns)

\* C8: after the pass every cell port bit that belonged to a class of the
\* pass's SigMap is the single representative of that class, no cell port
\* holds a non-representative member, and bits outside every class are
\* unchanged in the cell ports.
C8_CellPortsUseRepresentative ==
    (pc = "mw_done") =>
        /\ \A comp \in Components(sigmap) :
              \E r \in comp :
                 /\ \A q \in PortPositions :
                       orig_cells[q[1]][q[2]][q[3]] \in comp => cells[q[1]][q[2]][q[3]] = r
                 /\ (comp \ {r}) \cap CellPortBits(cells) = {}
        /\ \A q \in PortPositions :
              orig_cells[q[1]][q[2]][q[3]] \notin UNION sigmap
                 => cells[q[1]][q[2]][q[3]] = orig_cells[q[1]][q[2]][q[3]]
        /\ \A c \in DOMAIN orig_cells : \A p \in PortNames :
              Len(cells[c][p]) = Len(orig_cells[c][p])

\* C8 witness: a finished run in which a cell port of the input held a
\* non-representative member of a class
C8_Witness ==
    /\ pc = "mw_done"
    /\ \E b \in DOMAIN repmap : b \in CellPortBits(orig_cells)

\* C9: for every position of every connection where both sides are wire
\* bits, the two bits are referenced through the same representative after
\* the pass, also when another position of the connection holds a constant.
C9_PerBitUnification ==
    (pc = "mw_done") => \A e \in WirePairs(orig_conns) : Rep(e[1]) = Rep(e[2])

\* C10: two wire bits tied to a constant and not linked by any wire-to-wire
\* position stay apart: their references are not rewritten to a common bit,
\* no connection position pairs them, and both constant ties are still in
\* the connection list.
C10_ConstantNonUnification ==
    (pc = "mw_done") =>
        \A kx \in ConstPositions(orig_conns), ky \in ConstPositions(orig_conns) :
            LET x == orig_conns[kx[1]][1][kx[2]]
                y == orig_conns[ky[1]][1][ky[2]]
            IN  (x # y /\ y \notin Grow({x}, WirePairs(orig_conns))) =>
                   /\ Rep(x) # Rep(y)
                   /\ \A k \in 1..Len(conns) : \A i \in 1..Len(conns[k][1]) :
                         {conns[k][1][i], conns[k][2][i]} # {x, y}
                   /\ \E k \in 1..Len(conns) : \E i \in 1..Len(conns[k][1]) :
                         /\ conns[k][1][i] = Rep(x)
                         /\ conns[k][2][i] = orig_conns[kx[1]][2][kx[2]]

\* C10 witness: a finished run on a module that ties two unlinked wire bits
\* to the same constant
C10_Witness ==
    /\ pc = "mw_done"
    /\ \E kx \in ConstPositions(orig_conns), ky \in ConstPositions(orig_conns) :
          LET x == orig_conns[kx[1]][1][kx[2]]
              y == orig_conns[ky[1]][1][ky[2]]
          IN  /\ x # y
              /\ y \notin Grow({x}, WirePairs(orig_conns))
              /\ orig_conns[kx[1]][2][kx[2]] = orig_conns[ky[1]][2][ky[2]]

\* C11: opt.did_something is set exactly when the run changed the module: it
\* is set when a cell port bit or a connection bit was replaced, and it is not
\* set by a run whose cell ports and connection list equal its input.
C11_DidSomethingExact ==
    (pc = "mw_done") =>
        (did_something <=> (cells # orig_cells \/ conns # orig_conns))

---------------------------------------------------------------------------
(* tribuf: SigSpec operations used by the pass *)

Min(S) == CHOOSE m \in S : \A n \in S : m <= n

\* F(v), with v computed once
Bind(v, F(_)) == CHOOSE r \in {F(x) : x \in {v}} : TRUE

Reverse(sig) == [i \in 1..Len(sig) |-> sig[Len(sig) + 1 - i]]

\* the wire bits of a SigSpec
WireBitsOf(sig) == {b \in SeqSet(sig) : IsWireBit(b)}

\* SigSpec::chunks(): maximal runs of consecutive bits of one wire
RECURSIVE Chunks(_, _, _)
Chunks(sig, i, acc) ==
    IF i > Len(sig) THEN acc
    ELSE LET b == sig[i]
             n == Len(acc)
         IN  IF n > 0 /\ IsWireBit(b) /\ acc[n].wire = b[1]
                      /\ acc[n].offset + acc[n].width = b[2]
             THEN Chunks(sig, i + 1, [acc EXCEPT ![n].width = @ + 1])
             ELSE IF n > 0 /\ ~IsWireBit(b) /\ acc[n].wire = 0
             THEN Chunks(sig, i + 1, [acc EXCEPT ![n].width = @ + 1])
             ELSE Chunks(sig, i + 1,
                         Append(acc, [wire |-> b[1], offset |-> b[2], width |-> 1]))

InChunk(b, c) ==
    IsWireBit(b) /\ b[1] = c.wire /\ b[2] >= c.offset /\ b[2] < c.offset + c.width

\* SigSpec::extract(pattern, other): for every chunk of pattern in turn, the
\* bits of other at the positions where self holds a bit of the chunk
RECURSIVE ExtractChunks(_, _, _, _)
ExtractChunks(self, chunks, other, k) ==
    IF k > Len(chunks) THEN <<>>
    ELSE KeepIdx(other, {i \in 1..Len(self) : InChunk(self[i], chunks[k])}, 1)
         \o ExtractChunks(self, chunks, other, k + 1)

ExtractOther(self, pattern, other) ==
    ExtractChunks(self, Chunks(pattern, 1, <<>>), other, 1)

\* SigSpec::extract(pattern)
Extract(self, pattern) == ExtractOther(self, pattern, self)

\* SigSpec::remove(pattern): drop every wire bit that occurs in pattern
RemoveBits(sig, pattern) ==
    KeepIdx(sig, {i \in 1..Len(sig) : ~(IsWireBit(sig[i]) /\ sig[i] \in SeqSet(pattern))}, 1)

\* is_all_z
is_all_z(sig) == \A i \in 1..Len(sig) : sig[i] = Sz

---------------------------------------------------------------------------
(* tribuf: the two indexes (dict<SigBit, pool<Cell*>>) *)

\* index[bit].insert(c) for every bit of bits
IndexInsert(index, bits, c) ==
    [b \in (DOMAIN index) \cup bits |->
        (IF b \in DOMAIN index THEN index[b] ELSE {}) \cup (IF b \in bits THEN {c} ELSE {})]

\* index[bit].erase(c) for every bit of bits (operator[] creates the key)
IndexErase(index, bits, c) ==
    [b \in (DOMAIN index) \cup bits |->
        (IF b \in DOMAIN index THEN index[b] ELSE {}) \ (IF b \in bits THEN {c} ELSE {})]

\* if (index.count(bit) > 0) index[bit].erase(c) for every bit of bits
IndexEraseKnown(index, bits, c) ==
    [b \in DOMAIN index |-> index[b] \ (IF b \in bits THEN {c} ELSE {})]

\* index.at(bit) = {c} for every bit of bits
IndexReset(index, bits, c) ==
    [b \in DOMAIN index |-> IF b \in bits THEN {c} ELSE index[b]]

---------------------------------------------------------------------------
(* tribuf: additions to the module *)

NewWire(ws) == Cardinality(DOMAIN ws) + 1

\* module->addWire(NEW_ID, n)
AddWire(ws, n) ==
    ws @@ (NewWire(ws) :>
            [width |-> n, port_input |-> FALSE, port_output |-> FALSE, public |-> FALSE])

IsTribuf(c) == c.type = "tribuf"
IsMux(c) == c.type = "mux"

---------------------------------------------------------------------------
(* tribuf: recognition, run() lines 153-221 *)

\* mutant of RecognizeBZ: the select drives the enable directly
RecognizeBZ_NoNot(st, c) ==
    LET cell == st.cells[c]
    IN  [st EXCEPT
            !.cells = [@ EXCEPT ![c] = Cell("tribuf", cell.A, NoPort, NoPort, cell.S,
                                            cell.Y, cell.WIDTH)],
            !.ts = @ \cup SeqSet(cell.Y),
            !.km = IF config.propagate THEN IndexInsert(@, WireBitsOf(cell.A), c) ELSE @,
            !.added = TRUE]

\* lines 199-212: only B is all z; the enable is the output of a new $not
RecognizeBZ(st, c) ==
    LET cell  == st.cells[c]
        not_y == WireSig(NewWire(st.wires), Len(cell.S))
        gate  == Cell("not", cell.S, NoPort, NoPort, NoPort, not_y, Len(cell.S))
    IN  [st EXCEPT
            !.wires = AddWire(@, Len(cell.S)),
            !.cells = [@ EXCEPT ![c] = Cell("tribuf", cell.A, NoPort, NoPort, not_y,
                                            cell.Y, cell.WIDTH)]
                      @@ (st.nc :> gate),
            !.nc = @ + 1,
            !.ts = @ \cup SeqSet(cell.Y),
            !.km = IF config.propagate THEN IndexInsert(@, WireBitsOf(cell.A), c) ELSE @,
            !.added = TRUE]

\* lines 183-197: only A is all z; B moves to A, S to the enable
RecognizeAZ(st, c) ==
    LET cell == st.cells[c]
    IN  [st EXCEPT
            !.cells = [@ EXCEPT ![c] = Cell("tribuf", cell.B, NoPort, NoPort, cell.S,
                                            cell.Y, cell.WIDTH)],
            !.ts = @ \cup SeqSet(cell.Y),
            !.km = IF config.propagate THEN IndexInsert(@, WireBitsOf(cell.B), c) ELSE @,
            !.added = TRUE]

\* lines 154-213: the body of the loop over the selected cells
RecognizeCell(st, c) ==
    LET cell == st.cells[c]
    IN  IF IsTribuf(cell)
        THEN [st EXCEPT !.ts = @ \cup SeqSet(cell.Y),
                        !.km = IndexInsert(@, WireBitsOf(cell.A), c)]
        ELSE IF IsMux(cell)
        THEN LET az  == is_all_z(cell.A)
                 bz  == is_all_z(cell.B)
                 st1 == IF config.propagate /\ ~az /\ ~bz
                        THEN [st EXCEPT !.km = IndexInsert(
                                  IndexInsert(@, WireBitsOf(cell.A), c), WireBitsOf(cell.B), c)]
                        ELSE st
             IN  IF az /\ bz
                 THEN [st1 EXCEPT !.cells = [d \in (DOMAIN st1.cells) \ {c} |-> st1.cells[d]]]
                 ELSE IF az THEN RecognizeAZ(st1, c)
                 ELSE IF bz THEN RecognizeBZ(st1, c)
                 ELSE st1
        ELSE st

\* the loop over module->selected_cells()
RECURSIVE RecognizeAll(_, _)
RecognizeAll(st, ids) ==
    IF ids = {} THEN st
    ELSE Bind(RecognizeCell(st, Min(ids)), LAMBDA st1 : RecognizeAll(st1, ids \ {Min(ids)}))

\* lines 216-221: driving_cells from the output ports of every cell
DrivingCellsOf(cs) ==
    [b \in UNION {WireBitsOf(cs[c].Y) : c \in DOMAIN cs} |->
        {c \in DOMAIN cs : b \in SeqSet(cs[c].Y)}]

\* lines 147-151: the bits of the output ports
OutputBits(ws) ==
    UNION {SeqSet(WireSig(w, ws[w].width)) : w \in {w \in DOMAIN ws : ws[w].port_output}}

---------------------------------------------------------------------------
(* tribuf: check_know_muxes, lines 66-139 *)

check_know_muxes(cs, km, dc) ==
    \/ ~config.propagate
    \/ /\ \A b \in DOMAIN km : \A c \in km[b] \cap DOMAIN cs :
             IsMux(cs[c]) =>
                (Len(Extract(cs[c].A, <<b>>)) > 0 \/ Len(Extract(cs[c].B, <<b>>)) > 0)
       /\ \A c \in DOMAIN cs :
             IsMux(cs[c]) =>
                \A b \in WireBitsOf(cs[c].A) \cup WireBitsOf(cs[c].B) :
                    b \in DOMAIN km /\ c \in km[b]
       /\ \A b \in DOMAIN dc : \A c \in dc[b] \cap DOMAIN cs :
             Len(Extract(cs[c].Y, <<b>>)) > 0
       /\ \A c \in DOMAIN cs : \A b \in WireBitsOf(cs[c].Y) :
             b \in DOMAIN dc /\ c \in dc[b]

---------------------------------------------------------------------------
(* tribuf: propagation through a mux, run() lines 284-416 *)

\* the worker's state that a rewrite step changes
Worker ==
    [cells |-> cells, wires |-> wires, conns |-> conns, km |-> know_muxes,
     dc |-> driving_cells, ts |-> tribuf_signals, added_tribufs |-> added_tribufs,
     nc |-> next_cell, added |-> added_something, status |-> "ok"]

Failed(st, how) == [st EXCEPT !.status = how]

\* lines 321-338: the mux reads nothing but bits of the tri-state
MuxModify(st, c, is_a, extracted_x, y2, y3, input_y) ==
    [st EXCEPT
        !.cells = [@ EXCEPT ![c] = IF is_a THEN [@ EXCEPT !.A = extracted_x, !.Y = y3]
                                          ELSE [@ EXCEPT !.B = extracted_x, !.Y = y3]],
        !.km = IndexInsert(IndexEraseKnown(@, SeqSet(input_y), c), WireBitsOf(extracted_x), c),
        !.dc = IndexInsert(IndexErase(@, SeqSet(y2), c), SeqSet(y3), c)]

\* lines 339-389: split the mux into the bits that read the tri-state (a new
\* mux) and the rest (the old cell)
MuxSplit(st, c, is_a, extracted_x, extracted_y, extracted_y2, y2, y3, input_y) ==
    Bind(<<ExtractOther(input_y, extracted_y, st.cells[c].A),
           ExtractOther(input_y, extracted_y, st.cells[c].B)>>,
         LAMBDA e :
            LET cell        == st.cells[c]
                extracted_a == e[1]
                extracted_b == e[2]
                new_cell    == Cell("mux", IF is_a THEN extracted_x ELSE extracted_a,
                                    IF is_a THEN extracted_b ELSE extracted_x, cell.S,
                                    NoPort, y3,
                                    Len(IF is_a THEN extracted_x ELSE extracted_a))
            IN  [st EXCEPT
                    !.cells = [@ EXCEPT ![c] = [@ EXCEPT
                                                  !.A = RemoveBits(cell.A, extracted_a),
                                                  !.B = RemoveBits(cell.B, extracted_b),
                                                  !.Y = RemoveBits(y2, extracted_y2),
                                                  !.WIDTH = Len(extracted_y)]]
                              @@ (st.nc :> new_cell),
                    !.nc = @ + 1,
                    !.km = IndexInsert(
                               IndexInsert(
                                   IndexEraseKnown(
                                       IndexEraseKnown(@, WireBitsOf(extracted_a), c),
                                       WireBitsOf(extracted_b), c),
                                   WireBitsOf(new_cell.A), st.nc),
                               WireBitsOf(new_cell.B), st.nc),
                    !.dc = IndexInsert(IndexErase(@, SeqSet(extracted_y2), c),
                                       SeqSet(y3), st.nc)])

\* lines 390-415: the enable E || S (or E || ~S) and the new tri-state
MuxEnable(st, c, is_a, en1, y3, extracted_y2) ==
    LET sel     == st.cells[c].S
        w1      == NewWire(st.wires)
        not_y   == WireSig(w1, 1)
        or_y    == WireSig(IF is_a THEN w1 ELSE w1 + 1, 1)
        ws1     == IF is_a THEN AddWire(st.wires, 1) ELSE AddWire(AddWire(st.wires, 1), 1)
        not_id  == st.nc
        or_id   == IF is_a THEN st.nc ELSE st.nc + 1
        tri_id  == or_id + 1
        gates   == IF is_a
                   THEN (or_id :> Cell("or", en1, sel, NoPort, NoPort, or_y, 1))
                   ELSE (not_id :> Cell("not", sel, NoPort, NoPort, NoPort, not_y, Len(sel)))
                        @@ (or_id :> Cell("or", en1, not_y, NoPort, NoPort, or_y, 1))
        new_tri == Cell("tribuf", y3, NoPort, NoPort, or_y, extracted_y2, Len(y3))
        dc1     == IF is_a THEN st.dc ELSE IndexInsert(st.dc, SeqSet(not_y), not_id)
        dc2     == IndexInsert(dc1, SeqSet(or_y), or_id)
    IN  IF ~(SeqSet(extracted_y2) \subseteq DOMAIN dc2)
        THEN Failed(st, "exception")
        ELSE [st EXCEPT
                !.wires = ws1,
                !.cells = @ @@ gates @@ (tri_id :> new_tri),
                !.nc = tri_id + 1,
                !.dc = IndexInsert(dc2, SeqSet(extracted_y2), tri_id),
                !.ts = @ \cup SeqSet(extracted_y2),
                !.added_tribufs = @ \cup SeqSet(extracted_y2)]

\* lines 284-416: propagate the tri-state tb driving bit through mux c
PropagateMux(st, c, bit, tb) ==
    LET cell     == st.cells[c]
        is_a     == Len(Extract(cell.A, <<bit>>)) > 0
        is_b     == Len(Extract(cell.B, <<bit>>)) > 0
        output_y == st.cells[tb].Y
        input_y  == IF is_a THEN cell.A ELSE cell.B
        x        == st.cells[tb].A
        y2       == cell.Y
    IN  IF ~is_a /\ ~is_b THEN st
        ELSE IF Len(output_y) # Len(x) \/ Len(input_y) # Len(y2)
        THEN Failed(st, "assert")
        ELSE IF Len(Extract(output_y, input_y)) # Len(input_y) /\ Len(cell.A) # Len(cell.B)
        THEN Failed(st, "assert")
        ELSE Bind(<<Extract(output_y, input_y), ExtractOther(output_y, input_y, x)>>,
               LAMBDA e :
                 Bind(<<ExtractOther(input_y, e[1], y2),
                        WireSig(NewWire(st.wires), Len(e[1])),
                        [st EXCEPT !.wires = AddWire(@, Len(e[1]))]>>,
                   LAMBDA f :
                     Bind(IF Len(e[1]) = Len(input_y)
                          THEN MuxModify(f[3], c, is_a, e[2], y2, f[2], input_y)
                          ELSE MuxSplit(f[3], c, is_a, e[2], e[1], f[1], y2, f[2], input_y),
                       LAMBDA st2 :
                         MuxEnable(st2, c, is_a, st.cells[tb].EN, f[2], f[1]))))

---------------------------------------------------------------------------
(* tribuf: propagation through a tri-state, run() lines 417-491 *)

\* lines 432-451: the reader's A holds the whole output of the tri-state
TribufModify(st, c, a, en1) ==
    LET cell  == st.cells[c]
        and_y == WireSig(NewWire(st.wires), 1)
        gate  == Cell("and", en1, cell.EN, NoPort, NoPort, and_y, 1)
    IN  [st EXCEPT
            !.wires = AddWire(@, 1),
            !.cells = [@ EXCEPT ![c] = [@ EXCEPT !.A = a, !.EN = and_y, !.WIDTH = Len(a)]]
                      @@ (st.nc :> gate),
            !.nc = @ + 1,
            !.dc = IndexInsert(@, SeqSet(and_y), st.nc),
            !.km = IndexEraseKnown(@, WireBitsOf(cell.Y), c)]

\* lines 452-486: "split the tribuf"
TribufSplit(st, c, a, en1, extracted_y, extracted_y2) ==
    LET cell    == st.cells[c]
        and_y   == WireSig(NewWire(st.wires), 1)
        gate    == Cell("and", en1, cell.EN, NoPort, NoPort, and_y, 1)
        new_tri == Cell("tribuf", extracted_y, NoPort, NoPort, and_y, extracted_y2,
                        Len(extracted_y))
        and_id  == st.nc
        tri_id  == st.nc + 1
    IN  IF ~(SeqSet(extracted_y2) \subseteq DOMAIN st.dc)
        THEN Failed(st, "exception")
        ELSE [st EXCEPT
                !.wires = AddWire(@, 1),
                !.cells = [@ EXCEPT ![c] = [@ EXCEPT !.A = a, !.WIDTH = Len(a)]]
                          @@ (and_id :> gate) @@ (tri_id :> new_tri),
                !.nc = @ + 2,
                !.ts = @ \cup SeqSet(extracted_y2),
                !.added_tribufs = @ \cup SeqSet(extracted_y2),
                !.dc = IndexInsert(
                           IndexInsert(IndexEraseKnown(@, SeqSet(extracted_y2), c),
                                       SeqSet(extracted_y2), tri_id),
                           SeqSet(and_y), and_id),
                !.km = IndexInsert(IndexEraseKnown(@, WireBitsOf(extracted_y), c),
                                   WireBitsOf(extracted_y), tri_id)]

\* lines 417-491: propagate the tri-state tb driving bit through tri-state c
PropagateTribuf(st, c, bit, tb) ==
    LET cell        == st.cells[c]
        output      == st.cells[tb].Y
        input       == cell.A
        extracted_y == Extract(output, input)
    IN  IF Len(extracted_y) = 0 THEN st
        ELSE IF Len(output) # Len(st.cells[tb].A) THEN Failed(st, "assert")
        ELSE Bind(ExtractOther(output, input, st.cells[tb].A),
                  LAMBDA a :
                     IF extracted_y = output
                     THEN TribufModify(st, c, a, st.cells[tb].EN)
                     ELSE IF Len(output) # Len(cell.Y) THEN Failed(st, "assert")
                     ELSE Bind(<<extracted_y, ExtractOther(output, input, cell.Y)>>,
                               LAMBDA v : TribufSplit(st, c, a, st.cells[tb].EN, v[1], v[2])))

---------------------------------------------------------------------------
(* tribuf: merge(), lines 515-782 *)

BitLess(a, b) == a[1] < b[1] \/ (a[1] = b[1] /\ a[2] < b[2])

\* a set of bits as a sequence (the order the model iterates a pool in)
RECURSIVE SortBits(_)
SortBits(S) ==
    IF S = {} THEN <<>>
    ELSE LET m == CHOOSE m \in S : \A n \in S \ {m} : BitLess(m, n)
         IN  <<m>> \o SortBits(S \ {m})

\* a set of cell ids as a sequence
RECURSIVE SortIds(_)
SortIds(S) == IF S = {} THEN <<>> ELSE <<Min(S)>> \o SortIds(S \ {Min(S)})

\* every order a pool of cells can be iterated in
RECURSIVE Orders(_)
Orders(S) ==
    IF S = {} THEN {<<>>}
    ELSE UNION {{<<c>> \o t : t \in Orders(S \ {c})} : c \in S}

\* the bits of the Y ports of the cells of ord, each once, in the order met
RECURSIVE SiblingSeq(_, _, _, _)
SiblingSeq(cs, ord, k, acc) ==
    IF k > Len(ord) THEN acc
    ELSE LET y   == cs[ord[k]].Y
             new == KeepIdx(y, {i \in 1..Len(y) :
                                  /\ y[i] \notin SeqSet(acc)
                                  /\ \A j \in 1..(i - 1) : y[j] # y[i]}, 1)
         IN  SiblingSeq(cs, ord, k + 1, acc \o new)

\* lines 518-527
NoTribuf(sig) ==
    \/ config.formal_mode
    \/ /\ config.logic_mode
       /\ ~(~config.force /\ sig \in OutputBits(wires))

\* lines 660-686: split cell c into the bits of the intersection (a new
\* tri-state, appended to the cells to be merged) and the rest
MergeSplit(st, c, en, matching) ==
    LET cell        == st.cells[c]
        extracted_a == Reverse(KeepIdx(cell.A, matching, 1))
        extracted_y == Reverse(KeepIdx(cell.Y, matching, 1))
        port_a      == KeepIdx(cell.A, (1..Len(cell.A)) \ matching, 1)
        port_y      == KeepIdx(cell.Y, (1..Len(cell.Y)) \ matching, 1)
    IN  [st EXCEPT
            !.cells = [@ EXCEPT ![c] = [@ EXCEPT !.A = port_a, !.Y = port_y]]
                      @@ (st.nc :> Cell("tribuf", extracted_a, NoPort, NoPort, <<en>>,
                                        extracted_y, Len(extracted_a))),
            !.nc = @ + 1]

\* lines 643-688: the loop over the cells of one partition; r.tbm collects
\* to_be_merged
RECURSIVE MergeCells(_, _, _, _, _)
MergeCells(r, part, j, en, intersection) ==
    IF j > Len(part) \/ r.st.status # "ok" THEN r
    ELSE LET c        == part[j]
             output   == r.st.cells[c].Y
             matching == {i \in 1..Len(output) : output[i] \in intersection}
         IN  IF Cardinality(matching) = Len(output)
             THEN MergeCells([r EXCEPT !.tbm = Append(@, c)], part, j + 1, en, intersection)
             ELSE IF matching = {}
             THEN [r EXCEPT !.st = Failed(@, "error")]
             ELSE IF Len(r.st.cells[c].A) # Len(output)
             THEN [r EXCEPT !.st = Failed(@, "assert")]
             ELSE Bind([st  |-> MergeSplit(r.st, c, en, matching),
                        tbm |-> Append(r.tbm, r.st.nc)],
                       LAMBDA r1 : MergeCells(r1, part, j + 1, en, intersection))

RECURSIVE ConcatPort(_, _, _, _)
ConcatPort(cs, ids, p, k) ==
    IF k > Len(ids) THEN <<>> ELSE cs[ids[k]][p] \o ConcatPort(cs, ids, p, k + 1)

\* lines 689-702: the cells to be merged become one tri-state with enable en
MergePartition(st, tbm, en) ==
    LET merged_a == ConcatPort(st.cells, tbm, "A", 1)
        merged_y == ConcatPort(st.cells, tbm, "Y", 1)
        dead     == SeqSet(tbm)
        dc1      == [b \in DOMAIN st.dc |->
                        st.dc[b] \ {c \in dead : b \in SeqSet(st.cells[c].Y)}]
    IN  [st EXCEPT
            !.dc = dc1,
            !.cells = [c \in (DOMAIN st.cells) \ dead |-> st.cells[c]]
                      @@ (st.nc :> Cell("tribuf", merged_a, NoPort, NoPort, <<en>>,
                                        merged_y, Len(merged_a))),
            !.nc = @ + 1]

\* lines 641-703: the loop over the enables driving sig; r.new collects cells
RECURSIVE MergeEnables(_, _, _, _, _)
MergeEnables(r, ens, k, partition, intersection) ==
    IF k > Len(ens) \/ r.st.status # "ok" THEN r
    ELSE LET en == ens[k]
         IN  Bind(MergeCells([st |-> r.st, tbm |-> <<>>], SortIds(partition[en]), 1, en,
                             intersection),
                  LAMBDA m :
                     IF m.st.status # "ok" THEN [r EXCEPT !.st = m.st]
                     ELSE Bind([st  |-> MergePartition(m.st, m.tbm, en),
                                new |-> Append(r.new, m.st.nc)],
                               LAMBDA r1 : MergeEnables(r1, ens, k + 1, partition,
                                                        intersection)))

\* mutant of FormalAsserts: the cell's own enable is not left out of the others
RECURSIVE FormalAsserts_WithSelf(_, _, _)
FormalAsserts_WithSelf(st, new, k) ==
    IF k > Len(new) THEN st
    ELSE LET others_s == ConcatPort(st.cells, new, "EN", 1)
             cell_s   == st.cells[new[k]].EN
             w        == NewWire(st.wires)
             other_s  == WireSig(w, 1)
             conflict == WireSig(w + 1, 1)
             ok       == WireSig(w + 2, 1)
             gates    == (st.nc :> Cell("reduce_or", others_s, NoPort, NoPort, NoPort,
                                        other_s, Len(others_s)))
                         @@ (st.nc + 1 :> Cell("and", cell_s, other_s, NoPort, NoPort,
                                               conflict, 1))
                         @@ (st.nc + 2 :> Cell("not", conflict, NoPort, NoPort, NoPort, ok, 1))
                         @@ (st.nc + 3 :> [Cell("assert", ok, NoPort, NoPort, <<S1>>, NoPort, 1)
                                            EXCEPT !.keep = TRUE])
         IN  Bind([st EXCEPT !.wires = AddWire(AddWire(AddWire(@, 1), 1), 1),
                             !.cells = @ @@ gates,
                             !.nc = @ + 4,
                             !.added = TRUE],
                  LAMBDA st1 : FormalAsserts_WithSelf(st1, new, k + 1))

\* lines 711-736: the assertion that the enable of new[k] is not high together
\* with the enable of another driver
RECURSIVE FormalAsserts(_, _, _)
FormalAsserts(st, new, k) ==
    IF k > Len(new) THEN st
    ELSE LET others_s == ConcatPort(st.cells, SelectSeq(new, LAMBDA d : d # new[k]), "EN", 1)
             cell_s   == st.cells[new[k]].EN
             w        == NewWire(st.wires)
             other_s  == WireSig(w, 1)
             conflict == WireSig(w + 1, 1)
             ok       == WireSig(w + 2, 1)
             gates    == (st.nc :> Cell("reduce_or", others_s, NoPort, NoPort, NoPort,
                                        other_s, Len(others_s)))
                         @@ (st.nc + 1 :> Cell("and", cell_s, other_s, NoPort, NoPort,
                                               conflict, 1))
                         @@ (st.nc + 2 :> Cell("not", conflict, NoPort, NoPort, NoPort, ok, 1))
                         @@ (st.nc + 3 :> [Cell("assert", ok, NoPort, NoPort, <<S1>>, NoPort, 1)
                                            EXCEPT !.keep = TRUE])
         IN  Bind([st EXCEPT !.wires = AddWire(AddWire(AddWire(@, 1), 1), 1),
                             !.cells = @ @@ gates,
                             !.nc = @ + 4,
                             !.added = TRUE],
                  LAMBDA st1 : FormalAsserts(st1, new, k + 1))

\* Module::connect(lhs, rhs): the widths must agree; the pair is appended
Connect(st, lhs, rhs) ==
    IF Len(lhs) # Len(rhs) THEN Failed(st, "assert")
    ELSE [st EXCEPT !.conns = Append(@, <<lhs, rhs>>)]

\* lines 739-781: the drivers collected in new become a $pmux (if more than
\* one) that feeds a connection or one new tri-state
MergeOutput(st0, new, intersection_sig, no_tribuf) ==
    LET pmux_s == ConcatPort(st0.cells, new, "EN", 1)
        pmux_b == ConcatPort(st0.cells, new, "A", 1)
        n      == Len(intersection_sig)
        st     == [st0 EXCEPT !.cells = [c \in (DOMAIN st0.cells) \ SeqSet(new) |-> st0.cells[c]]]
        pmux_y == WireSig(NewWire(st.wires), n)
        st1    == IF Len(pmux_s) > 1
                  THEN [st EXCEPT
                          !.wires = AddWire(@, n),
                          !.cells = @ @@ (st.nc :> Cell("pmux", [i \in 1..n |-> Sx], pmux_b,
                                                        pmux_s, NoPort, pmux_y, n)),
                          !.nc = @ + 1,
                          !.dc = IndexInsert(@, SeqSet(pmux_y), st.nc)]
                  ELSE st
        muxout == IF Len(pmux_s) > 1 THEN pmux_y ELSE pmux_b
        reduce_or_y == WireSig(NewWire(st1.wires), 1)
    IN  IF no_tribuf THEN Connect(st1, intersection_sig, muxout)
        ELSE IF ~(SeqSet(intersection_sig) \subseteq DOMAIN st1.dc)
        THEN Failed(st1, "exception")
        ELSE [st1 EXCEPT
                !.wires = AddWire(@, 1),
                !.cells = @ @@ (st1.nc :> Cell("reduce_or", pmux_s, NoPort, NoPort, NoPort,
                                               reduce_or_y, Len(pmux_s)))
                            @@ (st1.nc + 1 :> Cell("tribuf", muxout, NoPort, NoPort,
                                                   reduce_or_y, intersection_sig, Len(muxout))),
                !.nc = @ + 2,
                !.added = TRUE,
                !.dc = IndexInsert(IndexReset(@, SeqSet(intersection_sig), st1.nc + 1),
                                   SeqSet(reduce_or_y), st1.nc)]

\* Merge with the return of lines 560-564 left out: the drivers of the
\* siblings that are not tri-states are ignored
Merge_IgnoreForeign(st, sig, ord) ==
    LET no_tribuf == NoTribuf(sig)
        cs        == st.cells
        mcells    == SeqSet(ord)
    IN  IF Cardinality(mcells) <= 1 /\ ~no_tribuf THEN st
        ELSE IF \E c \in mcells : ~IsTribuf(cs[c]) THEN st
        ELSE Bind(SiblingSeq(cs, ord, 1, <<>>), LAMBDA siblings :
        IF ~(SeqSet(siblings) \subseteq DOMAIN st.dc) THEN Failed(st, "exception")
        ELSE Bind({c \in UNION {st.dc[b] : b \in SeqSet(siblings)} : IsTribuf(cs[c])},
                  LAMBDA drivers :
        IF \E c \in drivers : Len(cs[c].EN) # 1 THEN Failed(st, "error")
        ELSE Bind([e \in {cs[c].EN[1] : c \in drivers} |-> {c \in drivers : cs[c].EN[1] = e}],
                  LAMBDA partition :
        LET ens     == {cs[c].EN[1] : c \in mcells}
            psig(e) == UNION {SeqSet(cs[c].Y) : c \in partition[e]}
        IN  Bind({b \in SeqSet(siblings) : \A e \in ens : b \in psig(e)}, LAMBDA intersection :
        Bind(MergeEnables([st |-> st, new |-> <<>>], SortBits(ens), 1, partition, intersection),
             LAMBDA r :
        IF r.st.status # "ok" THEN r.st
        ELSE Bind(IF config.formal_mode /\ Len(r.new) >= 2
                  THEN FormalAsserts(r.st, r.new, 1)
                  ELSE r.st,
                  LAMBDA st1 :
        MergeOutput(st1, r.new, SelectSeq(siblings, LAMBDA b : b \in intersection),
                    no_tribuf)))))))

\* merge(sig, driving_cells); ord is the order the pool of the cells driving
\* sig is iterated in
Merge(st, sig, ord) ==
    LET no_tribuf == NoTribuf(sig)
        cs        == st.cells
        mcells    == SeqSet(ord)
    IN  IF Cardinality(mcells) <= 1 /\ ~no_tribuf THEN st
        ELSE IF \E c \in mcells : ~IsTribuf(cs[c]) THEN st
        ELSE Bind(SiblingSeq(cs, ord, 1, <<>>), LAMBDA siblings :
        IF ~(SeqSet(siblings) \subseteq DOMAIN st.dc) THEN Failed(st, "exception")
        ELSE Bind(UNION {st.dc[b] : b \in SeqSet(siblings)}, LAMBDA drivers :
        IF \E c \in drivers : ~IsTribuf(cs[c]) THEN st
        ELSE IF \E c \in drivers : Len(cs[c].EN) # 1 THEN Failed(st, "error")
        ELSE Bind([e \in {cs[c].EN[1] : c \in drivers} |-> {c \in drivers : cs[c].EN[1] = e}],
                  LAMBDA partition :
        LET ens     == {cs[c].EN[1] : c \in mcells}
            psig(e) == UNION {SeqSet(cs[c].Y) : c \in partition[e]}
        IN  Bind({b \in SeqSet(siblings) : \A e \in ens : b \in psig(e)}, LAMBDA intersection :
        Bind(MergeEnables([st |-> st, new |-> <<>>], SortBits(ens), 1, partition, intersection),
             LAMBDA r :
        IF r.st.status # "ok" THEN r.st
        ELSE Bind(IF config.formal_mode /\ Len(r.new) >= 2
                  THEN FormalAsserts(r.st, r.new, 1)
                  ELSE r.st,
                  LAMBDA st1 :
        MergeOutput(st1, r.new, SelectSeq(siblings, LAMBDA b : b \in intersection),
                    no_tribuf)))))))

---------------------------------------------------------------------------
(* tribuf: the modules the pass is run on.  They have no connections on
   entry, so the worker's SigMap, built once from the connections of the
   module (line 55), maps every bit to itself. *)

\* widest Y port of a tri-state of the input
MaxTriWidth == 2

\* the steps of run() are followed while at most this many cell ids are in use;
\* the code itself has no such limit
MaxCells == 30

\* wires: 1 x, 2 e, 4 b, 5 s, 7 q, 8 e2 are input ports, 6 o is an output
\* port, 3 y is the tri-state net (an output port if yout)
TBWires(yout) ==
    [w \in 1..8 |->
        [width       |-> IF w \in {2, 5, 8} THEN 1
                         ELSE IF w \in {1, 3} THEN MaxTriWidth ELSE MaxTriWidth + 1,
         port_input  |-> w \in {1, 2, 4, 5, 7, 8},
         port_output |-> w = 6 \/ (w = 3 /\ yout),
         public      |-> TRUE]]

ZSig(n) == [i \in 1..n |-> Sz]

\* the Y port of the upstream cell
NetY(p) == IF p.yrev THEN Reverse(WireSig(3, p.uw)) ELSE WireSig(3, p.uw)

\* the data input of the upstream cell: x, or the output o of the reader
NetX(p) == IF p.fb THEN WireSig(6, p.uw) ELSE WireSig(1, p.uw)

\* cell 1: a tri-state, a mux with z inputs, a plain mux, or a tri-state
\* that drives the internal bit y[0] and the output-port bit o[0]
Upstream(p) ==
    CASE p.uk = "tribuf" -> Cell("tribuf", NetX(p), NoPort, NoPort, <<(<<2, 0>>)>>, NetY(p), p.uw)
      [] p.uk = "zmuxA"  -> Cell("mux", ZSig(p.uw), NetX(p), <<(<<2, 0>>)>>, NoPort, NetY(p), p.uw)
      [] p.uk = "zmuxB"  -> Cell("mux", NetX(p), ZSig(p.uw), <<(<<2, 0>>)>>, NoPort, NetY(p), p.uw)
      [] p.uk = "zmuxAB" -> Cell("mux", ZSig(p.uw), ZSig(p.uw), <<(<<2, 0>>)>>, NoPort, NetY(p), p.uw)
      [] p.uk = "tribufYO" -> Cell("tribuf", WireSig(1, 2), NoPort, NoPort, <<(<<2, 0>>)>>,
                                   <<(<<3, 0>>), (<<6, 0>>)>>, 2)
      [] OTHER           -> Cell("mux", NetX(p), WireSig(7, p.uw), <<(<<2, 0>>)>>, NoPort,
                                 NetY(p), p.uw)

\* what the reader lists on the port that reads y
ReaderIn(p) ==
    CASE p.sel = "same"  -> NetY(p)
      [] p.sel = "rev"   -> Reverse(NetY(p))
      [] p.sel = "first" -> <<NetY(p)[1]>>
      [] p.sel = "wider" -> NetY(p) \o <<(<<7, 0>>)>>
      [] OTHER           -> <<NetY(p)[1], <<7, 0>>>>

\* cell 2: the reader of y, or a cell that drives y[1]: a tri-state with the
\* enable e, a mux that reads y[0], or a $not
Reader(p) ==
    LET rin == ReaderIn(p)
        n   == Len(rin)
        sel == <<(<<5, 0>>)>>
        o   == WireSig(6, n)
        b   == WireSig(4, n)
    IN  CASE p.rk = "muxA"   -> Cell("mux", rin, b, sel, NoPort, o, n)
          [] p.rk = "muxB"   -> Cell("mux", b, rin, sel, NoPort, o, n)
          [] p.rk = "muxAB"  -> Cell("mux", rin, rin, sel, NoPort, o, n)
          [] p.rk = "muxAfb" -> Cell("mux", rin, o, sel, NoPort, o, n)
          [] p.rk = "sibTri" -> Cell("tribuf", <<(<<4, 0>>)>>, NoPort, NoPort, <<(<<2, 0>>)>>,
                                     <<(<<3, 1>>)>>, 1)
          [] p.rk = "sibMux" -> Cell("mux", <<(<<3, 0>>)>>, <<(<<4, 0>>)>>, sel, NoPort,
                                     <<(<<3, 1>>)>>, 1)
          [] p.rk = "sibNot" -> Cell("not", <<(<<4, 0>>)>>, NoPort, NoPort, NoPort,
                                     <<(<<3, 1>>)>>, 1)
          [] OTHER           -> Cell("tribuf", rin, NoPort, NoPort, sel, o, n)

\* cell 3: a second tri-state driving y
Second(p) ==
    LET en == IF p.dk = "same_en" THEN <<(<<2, 0>>)>> ELSE <<(<<8, 0>>)>>
        y  == CASE p.dk = "other_rev"   -> Reverse(NetY(p))
                [] p.dk = "other_first" -> <<NetY(p)[1]>>
                [] OTHER                -> NetY(p)
    IN  Cell("tribuf", WireSig(7, Len(y)), NoPort, NoPort, en, y, Len(y))

Net(p) ==
    (1 :> Upstream(p))
    @@ (IF p.rk = "none" THEN <<>> ELSE (2 :> Reader(p)))
    @@ (IF p.dk = "none" THEN <<>> ELSE (3 :> Second(p)))

NetParams(uks, fbs, rks, sels, dks, youts) ==
    [uk : uks, uw : 1..MaxTriWidth, yrev : BOOLEAN, fb : fbs, rk : rks, sel : sels,
     dk : dks, yout : youts]

\* a tri-state or z-mux feeding a reader; two drivers of one net; a reader
\* whose output feeds back; a tri-state driving an internal and an output
\* bit; two drivers of y[0] with another driver of the sibling bit y[1]
Nets ==
    NetParams({"tribuf", "zmuxA", "zmuxB", "zmuxAB", "mux"}, {FALSE},
              {"none", "muxA", "muxB", "muxAB", "tri"},
              {"same", "rev", "first", "wider", "part"}, {"none"}, {FALSE})
    \cup NetParams({"tribuf"}, {FALSE}, {"none", "muxA", "tri"}, {"same"},
                   {"same_en", "other_en", "other_rev", "other_first"}, BOOLEAN)
    \cup NetParams({"tribuf"}, {TRUE}, {"muxA", "muxB", "muxAfb", "tri"}, {"same"},
                   {"none"}, {FALSE})
    \cup NetParams({"tribufYO"}, {FALSE}, {"none", "muxA"}, {"same"}, {"none"}, {FALSE})
    \cup NetParams({"tribuf"}, {FALSE}, {"sibTri", "sibMux", "sibNot"}, {"same"},
                   {"same_en", "other_en", "other_first"}, {FALSE})

\* the flag combinations execute() can produce (lines 825-848)
Configs ==
    {c \in [merge_mode : BOOLEAN, logic_mode : BOOLEAN, formal_mode : BOOLEAN,
            propagate : BOOLEAN, force : BOOLEAN] :
        c.propagate => c.merge_mode}

\* the worker is constructed for one of the modules nets under one of the
\* flag combinations configs
InitOn(nets, configs) ==
    /\ \E p \in nets :
          /\ wires = TBWires(p.yout)
          /\ cells = Net(p)
    /\ conns = <<>>
    /\ config \in configs
    /\ pc = "t_recognize"
    /\ orig_cells = cells
    /\ orig_conns = conns
    /\ sigmap = {}
    /\ repmap = <<>>
    /\ changed_wires = 0
    /\ did_something = FALSE
    /\ run = 1
    /\ know_muxes = <<>>
    /\ driving_cells = <<>>
    /\ tribuf_signals = {}
    /\ added_tribufs = {}
    /\ current_tribufs = {}
    /\ it = S0
    /\ tribuf = 0
    /\ readers = {}
    /\ merge_todo = {}
    /\ added_something = FALSE
    /\ next_cell = 4
    /\ rounds = 0

InitTribuf == InitOn(Nets, Configs)

\* tribuf -propagate on the modules with one-bit tri-states and one driver,
\* with and without feedback
InitPropagate ==
    InitOn({p \in Nets : p.uw = 1 /\ p.dk = "none"},
           {c \in Configs : c.propagate /\ ~c.logic_mode /\ ~c.formal_mode /\ ~c.force})

---------------------------------------------------------------------------
(* tribuf: the steps of run() *)

\* the worker continues at next, or the pass ends in a log_error, a failed
\* log_assert or an uncaught std::out_of_range
PcAfter(st, next) ==
    CASE st.status = "ok"     -> next
      [] st.status = "error"  -> "t_error"
      [] st.status = "assert" -> "t_assert"
      [] OTHER                -> "t_exception"

Commit(st) ==
    /\ cells' = st.cells
    /\ wires' = st.wires
    /\ conns' = st.conns
    /\ know_muxes' = st.km
    /\ driving_cells' = st.dc
    /\ tribuf_signals' = st.ts
    /\ added_tribufs' = st.added_tribufs
    /\ next_cell' = st.nc
    /\ added_something' = st.added

\* cells the indexes still point to after module->remove
Dangling(cs, index) == (UNION {index[b] : b \in DOMAIN index}) \ DOMAIN cs

\* lines 153-221: recognition, then driving_cells
T_Recognize ==
    /\ pc = "t_recognize"
    /\ \E st \in {RecognizeAll(Worker, DOMAIN cells)} :
          Commit([st EXCEPT !.dc = DrivingCellsOf(st.cells)])
    /\ pc' = "t_recognized"
    /\ UNCHANGED <<orig_cells, orig_conns, mwVars, config, current_tribufs, it, tribuf,
                   readers, merge_todo, rounds>>

\* lines 223-233: the check after recognition; the worklist starts as
\* tribuf_signals
T_CheckRecognized ==
    /\ pc = "t_recognized"
    /\ IF ~check_know_muxes(cells, know_muxes, driving_cells)
       THEN pc' = "t_error" /\ UNCHANGED added_tribufs
       ELSE IF config.propagate
       THEN pc' = "t_while" /\ added_tribufs' = tribuf_signals
       ELSE pc' = "t_after" /\ UNCHANGED added_tribufs
    /\ UNCHANGED <<modVars, orig_cells, orig_conns, mwVars, config, know_muxes, driving_cells,
                   tribuf_signals, current_tribufs, it, tribuf, readers, merge_todo,
                   added_something, next_cell, rounds>>

\* lines 235-238: the test of the while loop and the swap
T_While ==
    /\ pc = "t_while"
    /\ IF added_tribufs # {}
       THEN /\ current_tribufs' = added_tribufs
            /\ added_tribufs' = {}
            /\ rounds' = rounds + 1
            /\ pc' = "t_item"
       ELSE /\ pc' = "t_after"
            /\ UNCHANGED <<current_tribufs, added_tribufs, rounds>>
    /\ UNCHANGED <<modVars, orig_cells, orig_conns, mwVars, config, know_muxes, driving_cells,
                   tribuf_signals, it, tribuf, readers, merge_todo, added_something,
                   next_cell>>

\* lines 239-273: one bit of current_tribufs, up to the choice of the
\* tri-state that drives it
T_Item ==
    /\ pc = "t_item"
    /\ current_tribufs # {}
    /\ next_cell <= MaxCells
    /\ \E b \in current_tribufs :
          /\ it' = b
          /\ current_tribufs' = current_tribufs \ {b}
          /\ \/ /\ config.propagate
                /\ Dangling(cells, know_muxes) \cup Dangling(cells, driving_cells) # {}
                /\ pc' = "t_ub"
                /\ UNCHANGED <<modVars, know_muxes, driving_cells, tribuf_signals,
                               added_tribufs, next_cell, added_something, tribuf, readers>>
             \/ IF ~check_know_muxes(cells, know_muxes, driving_cells)
                THEN /\ pc' = "t_error"
                     /\ UNCHANGED <<modVars, know_muxes, driving_cells, tribuf_signals,
                                    added_tribufs, next_cell, added_something, tribuf, readers>>
                ELSE IF b \notin DOMAIN know_muxes
                THEN /\ pc' = "t_item"
                     /\ UNCHANGED <<modVars, know_muxes, driving_cells, tribuf_signals,
                                    added_tribufs, next_cell, added_something, tribuf, readers>>
                ELSE IF b \notin DOMAIN driving_cells
                THEN /\ pc' = "t_exception"
                     /\ UNCHANGED <<modVars, know_muxes, driving_cells, tribuf_signals,
                                    added_tribufs, next_cell, added_something, tribuf, readers>>
                ELSE IF \/ \E c \in driving_cells[b] : ~IsTribuf(cells[c])
                        \/ Cardinality(driving_cells[b]) > 1 /\ ~config.merge_mode
                THEN /\ pc' = "t_item"
                     /\ UNCHANGED <<modVars, know_muxes, driving_cells, tribuf_signals,
                                    added_tribufs, next_cell, added_something, tribuf, readers>>
                ELSE \E many \in {Cardinality(driving_cells[b]) > 1} :
                     \E ord \in Orders(driving_cells[b]) :
                     \E st \in {IF many THEN Merge(Worker, b, ord) ELSE Worker} :
                           IF st.status # "ok"
                           THEN Commit(st) /\ pc' = PcAfter(st, "t_item")
                                /\ UNCHANGED <<tribuf, readers>>
                           ELSE IF b \notin DOMAIN st.dc
                           THEN Commit(st) /\ pc' = "t_exception" /\ UNCHANGED <<tribuf, readers>>
                           ELSE IF many /\ Cardinality(st.dc[b]) # 1
                           THEN Commit(st) /\ pc' = "t_assert" /\ UNCHANGED <<tribuf, readers>>
                           ELSE IF b \notin st.ts
                           THEN Commit(st) /\ pc' = "t_item" /\ UNCHANGED <<tribuf, readers>>
                           ELSE IF Cardinality(st.dc[b]) # 1
                           THEN Commit(st) /\ pc' = "t_assert" /\ UNCHANGED <<tribuf, readers>>
                           ELSE /\ Commit([st EXCEPT !.ts = @ \ {b}])
                                /\ tribuf' = CHOOSE c \in st.dc[b] : TRUE
                                /\ readers' = st.km[b]
                                /\ pc' = "t_reader"
    /\ UNCHANGED <<orig_cells, orig_conns, mwVars, config, merge_todo, rounds>>

\* line 239: the for loop over current_tribufs is through
T_ItemsDone ==
    /\ pc = "t_item"
    /\ current_tribufs = {}
    /\ pc' = "t_while"
    /\ UNCHANGED <<modVars, orig_cells, orig_conns, mwVars, tbVars>>

\* lines 279-492: one cell of know_muxes.at(it).  The loop holds a reference
\* into know_muxes; a rewrite that adds a key to know_muxes can move the
\* entries and leave the reference dangling
T_Reader ==
    /\ pc = "t_reader"
    /\ readers # {}
    /\ next_cell <= MaxCells
    /\ \E c \in readers :
          /\ readers' = readers \ {c}
          /\ IF c \notin DOMAIN cells
             THEN /\ pc' = "t_ub"
                  /\ UNCHANGED <<modVars, know_muxes, driving_cells, tribuf_signals,
                                 added_tribufs, next_cell, added_something>>
             ELSE \E st \in {IF IsMux(cells[c]) THEN PropagateMux(Worker, c, it, tribuf)
                               ELSE IF IsTribuf(cells[c])
                               THEN PropagateTribuf(Worker, c, it, tribuf)
                               ELSE Worker} :
                      /\ Commit(st)
                      /\ \/ pc' = PcAfter(st, "t_reader")
                         \/ /\ st.status = "ok"
                            /\ DOMAIN st.km # DOMAIN know_muxes
                            /\ pc' = "t_ub"
    /\ UNCHANGED <<orig_cells, orig_conns, mwVars, config, current_tribufs, it, tribuf,
                   merge_todo, rounds>>

\* line 279: the for loop over the readers is through
T_ReadersDone ==
    /\ pc = "t_reader"
    /\ readers = {}
    /\ pc' = "t_item"
    /\ UNCHANGED <<modVars, orig_cells, orig_conns, mwVars, tbVars>>

\* line 500: the final loop runs over tribuf_signals in the merging modes
T_EnterFinal ==
    /\ pc = "t_after"
    /\ IF config.merge_mode \/ config.logic_mode \/ config.formal_mode
       THEN merge_todo' = tribuf_signals /\ pc' = "t_final"
       ELSE UNCHANGED merge_todo /\ pc' = "t_done"
    /\ UNCHANGED <<modVars, orig_cells, orig_conns, mwVars, config, know_muxes, driving_cells,
                   tribuf_signals, added_tribufs, current_tribufs, it, tribuf, readers,
                   added_something, next_cell, rounds>>

\* lines 501-511: one bit of tribuf_signals
T_FinalMerge ==
    /\ pc = "t_final"
    /\ merge_todo # {}
    /\ next_cell <= MaxCells
    /\ \E b \in merge_todo :
          /\ merge_todo' = merge_todo \ {b}
          /\ it' = b
          /\ IF b \notin DOMAIN driving_cells
             THEN /\ pc' = "t_exception"
                  /\ UNCHANGED <<modVars, know_muxes, driving_cells, tribuf_signals,
                                 added_tribufs, next_cell, added_something>>
             ELSE IF \E c \in driving_cells[b] : ~IsTribuf(cells[c])
             THEN /\ pc' = "t_final"
                  /\ UNCHANGED <<modVars, know_muxes, driving_cells, tribuf_signals,
                                 added_tribufs, next_cell, added_something>>
             ELSE \E ord \in Orders(driving_cells[b]) :
                  \E st \in {Merge(Worker, b, ord)} :
                     Commit(st) /\ pc' = PcAfter(st, "t_final")
    /\ UNCHANGED <<orig_cells, orig_conns, mwVars, config, current_tribufs, tribuf, readers,
                   rounds>>

\* line 501: the final loop is through
T_FinalDone ==
    /\ pc = "t_final"
    /\ merge_todo = {}
    /\ pc' = "t_done"
    /\ UNCHANGED <<modVars, orig_cells, orig_conns, mwVars, tbVars>>

NextT ==
    \/ T_Recognize
    \/ T_CheckRecognized
    \/ T_While
    \/ T_Item
    \/ T_ItemsDone
    \/ T_Reader
    \/ T_ReadersDone
    \/ T_EnterFinal
    \/ T_FinalMerge
    \/ T_FinalDone

SpecTribuf == InitTribuf /\ [][NextT]_vars

\* run() is one sequential procedure: it takes its next step whenever it has one
FairPropagate == InitPropagate /\ [][NextT]_vars /\ WF_vars(NextT)

\* the pass has ended: normally, in a log_error or failed log_assert, in an
\* uncaught exception, or in undefined behaviour
Ended == pc \in {"t_done", "t_error", "t_assert", "t_exception", "t_ub"}

---------------------------------------------------------------------------
(* gate-level semantics over the values 0, 1, x, z *)

\* how many cells deep a value is traced back
EvalDepth == 8

ConstVal(b) == CASE b = S0 -> "0" [] b = S1 -> "1" [] b = Sz -> "z" [] OTHER -> "x"

\* several drivers of one bit: z yields to the others, disagreement is x
Resolve(vals) ==
    LET strong == vals \ {"z"}
    IN  IF strong = {} THEN "z"
        ELSE IF Cardinality(strong) = 1 THEN CHOOSE v \in strong : TRUE
        ELSE "x"

Not4(a) == CASE a = "0" -> "1" [] a = "1" -> "0" [] OTHER -> "x"
And4(a, b) == IF a = "0" \/ b = "0" THEN "0" ELSE IF a = "1" /\ b = "1" THEN "1" ELSE "x"
Or4(a, b) == IF a = "1" \/ b = "1" THEN "1" ELSE IF a = "0" /\ b = "0" THEN "0" ELSE "x"
Mux4(a, b, sel) ==
    CASE sel = "0" -> a [] sel = "1" -> b [] OTHER -> IF a = b /\ a \in {"0", "1"} THEN a ELSE "x"
Tribuf4(a, en) == CASE en = "1" -> a [] en = "0" -> "z" [] OTHER -> "x"

RECURSIVE BitVal(_, _, _, _, _)
RECURSIVE CellOut(_, _, _, _, _, _)

\* the value of bit b in the netlist cs, cn under the input assignment env
BitVal(cs, cn, env, b, fuel) ==
    IF ~IsWireBit(b) THEN ConstVal(b)
    ELSE IF b \in DOMAIN env THEN env[b]
    ELSE IF fuel = 0 THEN "x"
    ELSE Resolve(
            {CellOut(cs, cn, env, q[1], q[2], fuel - 1) :
                q \in {q \in (DOMAIN cs) \X (1..(MaxTriWidth + 1)) :
                         q[2] <= Len(cs[q[1]].Y) /\ cs[q[1]].Y[q[2]] = b}}
            \cup
            {BitVal(cs, cn, env, cn[q[1]][2][q[2]], fuel - 1) :
                q \in {q \in (1..Len(cn)) \X (1..(MaxTriWidth + 1)) :
                         /\ q[2] <= Len(cn[q[1]][1]) /\ q[2] <= Len(cn[q[1]][2])
                         /\ cn[q[1]][1][q[2]] = b}})

\* the value cell c drives on position i of its Y port; a port that has no
\* position i contributes x
CellOut(cs, cn, env, c, i, fuel) ==
    LET cell   == cs[c]
        at(sig, k) == IF k <= Len(sig) THEN BitVal(cs, cn, env, sig[k], fuel) ELSE "x"
        svals  == {at(cell.S, k) : k \in 1..Len(cell.S)}
        high   == {k \in 1..Len(cell.S) : at(cell.S, k) = "1"}
        avals  == {at(cell.A, k) : k \in 1..Len(cell.A)}
    IN  CASE cell.type = "tribuf" -> Tribuf4(at(cell.A, i), at(cell.EN, 1))
          [] cell.type = "mux"    -> Mux4(at(cell.A, i), at(cell.B, i), at(cell.S, 1))
          [] cell.type = "not"    -> Not4(at(cell.A, i))
          [] cell.type = "and"    -> And4(at(cell.A, i), at(cell.B, i))
          [] cell.type = "or"     -> Or4(at(cell.A, i), at(cell.B, i))
          [] cell.type = "reduce_or" ->
                IF "1" \in avals THEN "1" ELSE IF avals \subseteq {"0"} THEN "0" ELSE "x"
          [] cell.type = "pmux"   ->
                IF ~(svals \subseteq {"0", "1"}) \/ Cardinality(high) > 1 THEN "x"
                ELSE IF high = {} THEN at(cell.A, i)
                ELSE at(cell.B, ((CHOOSE k \in high : TRUE) - 1) * cell.WIDTH + i)
          [] OTHER -> "x"

\* the input-port bits the cells cs read
UsedInputs(ws, cs) == {b \in CellPortBits(cs) : IsWireBit(b) /\ ws[b[1]].port_input}

\* every assignment of 0 and 1 to them
Envs(ws, cs) == [UsedInputs(ws, cs) -> {"0", "1"}]

\* the value of b before and after the pass
Before(env, b) == BitVal(orig_cells, orig_conns, env, b, EvalDepth)
After(env, b) == BitVal(cells, conns, env, b, EvalDepth)

---------------------------------------------------------------------------
(* tribuf: properties *)

\* the input has cell c and it is of type t
OrigIs(c, t) == c \in DOMAIN orig_cells /\ orig_cells[c].type = t

\* no cell of the input reads the reader's output wire o
OrigAcyclic ==
    \A c \in DOMAIN orig_cells :
        \A b \in SeqSet(orig_cells[c].A) \cup SeqSet(orig_cells[c].B) : b[1] # 6

\* only -propagate was given
PropagateOnly == config.propagate /\ ~config.logic_mode /\ ~config.formal_mode

\* only -merge was given
MergeOnly ==
    config.merge_mode /\ ~config.propagate /\ ~config.logic_mode /\ ~config.formal_mode

\* C1: tribuf -propagate preserves every output bit for every input
\* assignment when one tri-state feeds a mux (A or B) or another tri-state,
\* for every width, also when the reader takes a subset of the upstream Y
\* bits, is wider than the upstream Y, or lists the Y bits in another order.
C1_PropagatePreservesOutputs ==
    (/\ pc = "t_done"
     /\ PropagateOnly
     /\ OrigIs(1, "tribuf")
     /\ 2 \in DOMAIN orig_cells
     /\ 3 \notin DOMAIN orig_cells
     /\ OrigAcyclic)
    => \A env \in Envs(wires, orig_cells) :
          \A b \in OutputBits(wires) : After(env, b) = Before(env, b)

CellWidthsOk(cell) ==
    CASE cell.type = "mux" ->
            Len(cell.A) = cell.WIDTH /\ Len(cell.B) = cell.WIDTH /\ Len(cell.Y) = cell.WIDTH
      [] cell.type = "tribuf" ->
            Len(cell.A) = cell.WIDTH /\ Len(cell.Y) = cell.WIDTH
      [] cell.type = "pmux" ->
            Len(cell.B) = Len(cell.S) * Len(cell.A)
      [] OTHER -> TRUE

\* C3: after the pass, under every flag combination, every mux has A, B, Y
\* of width WIDTH, every tri-state has A, Y of width WIDTH, every pmux has
\* B width = S width x A width, and every connection has sides of one width.
C3_WidthPreservation ==
    (pc = "t_done") =>
        /\ \A c \in DOMAIN cells : CellWidthsOk(cells[c])
        /\ \A k \in 1..Len(conns) : Len(conns[k][1]) = Len(conns[k][2])

\* check_know_muxes is about to be called: after recognition (line 223) or
\* at the start of a worklist item (line 240)
AtCheck ==
    /\ config.propagate
    /\ pc = "t_recognized" \/ (pc = "t_item" /\ current_tribufs # {})

\* C4: at every call of check_know_muxes the two indexes agree with the
\* cells, so the check raises no fatal error.
C4_IndexCoherence ==
    AtCheck => check_know_muxes(cells, know_muxes, driving_cells)

\* the position of bit b in sig
PosIn(sig, b) == CHOOSE i \in 1..Len(sig) : sig[i] = b

\* the tri-states driving bit b
TribufDrivers(cs, b) == {c \in DOMAIN cs : IsTribuf(cs[c]) /\ b \in SeqSet(cs[c].Y)}

\* C6: after -merge of two tri-states with distinct enables, every bit both
\* drove has exactly one tri-state driver, its enable is e1 OR e2, and when
\* exactly one enable is high its data input at that bit is the A-input bit
\* the enabled original drove onto that bit; for every order of the Y ports.
C6_MergePerBit ==
    (/\ pc = "t_done"
     /\ MergeOnly
     /\ OrigIs(1, "tribuf") /\ OrigIs(3, "tribuf")
     /\ orig_cells[1].EN # orig_cells[3].EN)
    => \A b \in SeqSet(orig_cells[1].Y) \cap SeqSet(orig_cells[3].Y) :
          /\ Cardinality(TribufDrivers(cells, b)) = 1
          /\ LET d == cells[CHOOSE c \in TribufDrivers(cells, b) : TRUE]
                 i == PosIn(d.Y, b)
             IN  \A env \in Envs(wires, orig_cells) :
                    LET e1 == env[orig_cells[1].EN[1]]
                        e3 == env[orig_cells[3].EN[1]]
                        j  == IF e1 = "1" THEN 1 ELSE 3
                    IN  /\ BitVal(cells, conns, env, d.EN[1], EvalDepth) = Or4(e1, e3)
                        /\ (e1 # e3) =>
                              /\ i <= Len(d.A)
                              /\ BitVal(cells, conns, env, d.A[i], EvalDepth)
                                    = env[orig_cells[j].A[PosIn(orig_cells[j].Y, b)]]

\* C7: recognition (a) removes a mux whose A and B are all z, (b) turns a mux
\* whose A alone is all z into a tri-state with A = old B, enable = old S, the
\* same Y and no B or S, (c) turns a mux whose B alone is all z into a
\* tri-state with the same A and Y, no B or S, and the enable driven by a new
\* NOT cell reading old S, (d) leaves every other mux as it was.
C7_Recognition ==
    (pc = "t_recognized") =>
        \A c \in DOMAIN orig_cells :
            LET old == orig_cells[c]
                az  == is_all_z(old.A)
                bz  == is_all_z(old.B)
            IN  IsMux(old) =>
                  CASE az /\ bz -> c \notin DOMAIN cells
                    [] az /\ ~bz ->
                          /\ c \in DOMAIN cells
                          /\ cells[c] = Cell("tribuf", old.B, NoPort, NoPort, old.S, old.Y,
                                             old.WIDTH)
                    [] ~az /\ bz ->
                          /\ c \in DOMAIN cells
                          /\ cells[c].type = "tribuf"
                          /\ cells[c].A = old.A /\ cells[c].Y = old.Y
                          /\ cells[c].B = NoPort /\ cells[c].S = NoPort
                          /\ \E n \in (DOMAIN cells) \ (DOMAIN orig_cells) :
                                /\ cells[n].type = "not"
                                /\ cells[n].A = old.S
                                /\ cells[n].Y = cells[c].EN
                                /\ WireBitsOf(cells[n].Y) \cap CellPortBits(orig_cells) = {}
                    [] OTHER -> c \in DOMAIN cells /\ cells[c] = old

\* C7 witness: recognition has run on a mux whose B alone is all z
C7_Witness ==
    /\ pc = "t_recognized"
    /\ \E c \in DOMAIN orig_cells :
          /\ IsMux(orig_cells[c])
          /\ is_all_z(orig_cells[c].B)
          /\ ~is_all_z(orig_cells[c].A)

\* the run created a tri-state cell or rewrote a cell into one
MadeTribuf ==
    \E c \in DOMAIN cells :
        IsTribuf(cells[c]) /\ (c \notin DOMAIN orig_cells \/ ~IsTribuf(orig_cells[c]))

\* the run replaced a tri-state of the input by a connection
ConvertedTribuf ==
    /\ Len(conns) > Len(orig_conns)
    /\ \E c \in DOMAIN orig_cells : IsTribuf(orig_cells[c]) /\ c \notin DOMAIN cells

\* the run created an assertion
MadeAssert == \E c \in DOMAIN cells : cells[c].type = "assert"

\* C12: tribuf.added_something is set in every run that creates a tri-state,
\* rewrites a cell into a tri-state, converts a tri-state to logic or creates
\* an assertion, also in a -logic run that replaces a tri-state by a
\* connection and a -propagate run that creates a tri-state behind a mux.
C12_AddedSomething ==
    (pc = "t_done" /\ (MadeTribuf \/ ConvertedTribuf \/ MadeAssert)) => added_something

\* -logic without -force and without -formal
LogicOnly == config.logic_mode /\ ~config.force /\ ~config.formal_mode

\* the bits the connection list drives
ConnDriven(cn) == UNION {SeqSet(cn[k][1]) : k \in 1..Len(cn)}

\* C13: under -logic without -force and -formal, every output-port bit that
\* a tri-state drove before the pass is still driven by a tri-state and by no
\* connection afterwards, also when that tri-state drives an internal bit too.
C13_OutputsKeepTribuf ==
    (pc = "t_done" /\ LogicOnly) =>
        \A b \in OutputBits(wires) :
            TribufDrivers(orig_cells, b) # {} =>
                (TribufDrivers(cells, b) # {} /\ b \notin ConnDriven(conns))

\* in the input every bit a tri-state drives is driven by tri-states only
OnlyTribufDrivers ==
    \A c \in DOMAIN orig_cells : \A d \in DOMAIN orig_cells :
        (IsTribuf(orig_cells[c]) /\ SeqSet(orig_cells[c].Y) \cap SeqSet(orig_cells[d].Y) # {})
            => IsTribuf(orig_cells[d])

\* C14: under -formal, with or without -propagate, no tri-state cell remains
\* after the pass on a module whose tri-state nets have tri-state drivers
\* only, all with one-bit enables.
C14_FormalRemovesTribufs ==
    (pc = "t_done" /\ config.formal_mode /\ OnlyTribufDrivers) =>
        \A c \in DOMAIN cells : ~IsTribuf(cells[c])

\* the $assert cells of cs
Asserts(cs) == {c \in DOMAIN cs : cs[c].type = "assert"}

\* the enables of the tri-states that drive bit b
DriverEnables(cs, dc, b) ==
    IF b \in DOMAIN dc
    THEN {cs[c].EN[1] : c \in {c \in dc[b] \cap DOMAIN cs : IsTribuf(cs[c])}}
    ELSE {}

\* assert cell a of cs checks NOT(e AND (OR of others)): its condition is
\* the output of a $not of an $and of e and a $reduce_or over others
AssertsConflict(cs, a, e, others) ==
    \E n \in DOMAIN cs, d \in DOMAIN cs, o \in DOMAIN cs :
        /\ cs[n].type = "not" /\ cs[n].Y = cs[a].A /\ cs[n].A = cs[d].Y
        /\ cs[d].type = "and" /\ cs[d].A = <<e>> /\ cs[d].B = cs[o].Y
        /\ cs[o].type = "reduce_or"
        /\ SeqSet(cs[o].A) = others /\ Len(cs[o].A) = Cardinality(others)

\* what a step that merges the drivers of it' under -formal adds
FormalStepOk ==
    LET new == Asserts(cells') \ Asserts(cells)
        ens == DriverEnables(cells, driving_cells, it')
        k   == Cardinality(ens)
    IN  /\ k < 2 => new = {}
        /\ (k >= 2 /\ Len(conns') > Len(conns)) => new # {}
        /\ new # {} =>
              /\ Cardinality(new) = k
              /\ \A a \in new : cells'[a].keep /\ cells'[a].EN = <<S1>>
              /\ \A e \in ens : \E a \in new : AssertsConflict(cells', a, e, ens \ {e})
              /\ \A a \in new : \E e \in ens : AssertsConflict(cells', a, e, ens \ {e})

\* C15: under -formal a merge of k >= 2 per-enable tri-states adds exactly k
\* $assert cells, one per tri-state, each with keep, enable 1 and condition
\* NOT(EN_this AND (OR of the other enables)); a merge of fewer adds none.
C15_FormalAsserts ==
    [][(config.formal_mode /\ pc \in {"t_final", "t_item"}) => FormalStepOk]_vars

\* C15 witness: a -formal merge of two tri-states with distinct enables has
\* added its assertions
C15_Witness ==
    /\ config.formal_mode
    /\ pc = "t_final"
    /\ Cardinality(Asserts(cells)) = 2
    /\ OrigIs(1, "tribuf") /\ OrigIs(3, "tribuf")
    /\ orig_cells[1].EN # orig_cells[3].EN

\* -merge (alone or implied by -logic or -formal) without -propagate
MergeNoPropagate == config.merge_mode /\ ~config.propagate

\* every tri-state of the input has an enable of one bit
OneBitEnables ==
    \A c \in DOMAIN orig_cells : IsTribuf(orig_cells[c]) => Len(orig_cells[c].EN) = 1

\* C16: with -merge and without -propagate, on a module whose tri-states all
\* have 1-bit enables, the pass never ends in a log_error, also when a
\* tri-state that shares its enable with a driver of the merged bit drives
\* only sibling bits outside the intersection.
C16_NoFatalError ==
    (MergeNoPropagate /\ OneBitEnables) => pc # "t_error"

\* sig, or a bit in the Y port of a driver of sig, has a driver that is not a
\* tri-state (lines 539-544 and 558-564)
UnsupportedDriver(cs, dc, sig) ==
    /\ sig \in DOMAIN dc
    /\ \E s \in {sig} \cup UNION {SeqSet(cs[c].Y) : c \in dc[sig] \cap DOMAIN cs} :
          /\ s \in DOMAIN dc
          /\ \E d \in dc[s] \cap DOMAIN cs : ~IsTribuf(cs[d])

\* the step calls merge(it'): the final loop on a bit with tri-state drivers
\* only (lines 502-510), or the propagation loop on a bit with more than one
\* driver (lines 256-258)
CallsMerge ==
    \/ pc = "t_final" /\ merge_todo' # merge_todo /\ pc' # "t_exception"
    \/ /\ pc = "t_item" /\ current_tribufs' # current_tribufs /\ pc' # "t_ub"
       /\ it' \in DOMAIN know_muxes /\ it' \in DOMAIN driving_cells
       /\ config.merge_mode /\ Cardinality(driving_cells[it']) > 1
       /\ check_know_muxes(cells, know_muxes, driving_cells)

\* C18: a merge(sig) call that finds sig or a sibling bit driven by a cell
\* that is not a tri-state returns: it leaves the cells, the wires and ports,
\* the connections and driving_cells unchanged, and the final loop goes on
\* with its next bit.
C18_UnsupportedDriverFrame ==
    [][(CallsMerge /\ UnsupportedDriver(cells, driving_cells, it')) =>
          /\ cells' = cells /\ wires' = wires /\ conns' = conns
          /\ driving_cells' = driving_cells
          /\ pc = "t_final" => pc' = "t_final"]_vars

\* the final loop has called merge(y[0]) on two tri-state drivers of y[0]
\* while a $not or a mux drives the sibling bit y[1]
C18_Witness ==
    /\ pc = "t_final" /\ ~config.propagate /\ it = <<3, 0>>
    /\ <<3, 0>> \in DOMAIN driving_cells /\ <<3, 1>> \in DOMAIN driving_cells
    /\ Cardinality(driving_cells[<<3, 0>>]) = 2
    /\ \A c \in driving_cells[<<3, 0>>] : c \in DOMAIN cells /\ IsTribuf(cells[c])
    /\ 1 \in driving_cells[<<3, 1>>]
    /\ \E d \in driving_cells[<<3, 1>>] : d \in DOMAIN cells /\ ~IsTribuf(cells[d])

\* C19: in the propagation loop with merge mode on, when the worklist bit has
\* more than one driver and all of them are tri-states, merge is called and
\* afterwards driving_cells[bit] holds exactly one cell, so neither the
\* log_assert after the call nor the one before the driver is picked fails;
\* for every flag combination with -propagate, also when a sibling bit has a
\* driver that is not a tri-state.
C19_MergeLeavesOneDriver ==
    [][(CallsMerge /\ pc = "t_item" /\ pc' \notin {"t_error", "t_exception"}) =>
          /\ pc' # "t_assert"
          /\ it' \in DOMAIN driving_cells'
          /\ Cardinality(driving_cells'[it']) = 1]_vars

\* the connections a step appended: module->connect puts the emitted
\* connections after the rewritten connections of the input (line 224)
Appended == SubSeq(conns', Len(conns) + 1, Len(conns'))

\* C17: the pass emits at most one connection per pair of member wire and
\* representative wire, also when the bits of one member wire map to two
\* representative wires with interleaved offsets.
C17_OneConnectionPerWirePair ==
    [][(pc = "mw_emit") =>
          \A i \in 1..Len(Appended), j \in 1..Len(Appended) :
              (/\ Appended[i][1][1][1] = Appended[j][1][1][1]
               /\ Appended[i][2][1][1] = Appended[j][2][1][1]) => i = j]_vars

\* the bits of the module's wires
ModuleBits == {b \in (DOMAIN wires) \X (0..(MaxWidth - 1)) : b[2] < wires[b[1]].width}

\* the class of b under the equivalence the connection list cs generates
ClassOf(cs, b) == Grow({b}, WirePairs(cs))

\* const(b): the constants a position of cs ties to a bit of b's class
ConstOf(cs, b) ==
    {cs[q[1]][2][q[2]] : q \in {q \in ConstPositions(cs) : cs[q[1]][1][q[2]] \in ClassOf(cs, b)}}

\* the positions <<k, i>> of the appended connections whose lhs is b
AppendedAt(b) ==
    {q \in (1..Len(Appended)) \X (1..(Cardinality(DOMAIN repmap))) :
        q[2] <= Len(Appended[q[1]][1]) /\ Appended[q[1]][1][q[2]] = b}

\* C20: merge-wires preserves connectivity: the equivalence on wire bits that
\* the wire-to-wire positions of the connections generate, and the constants
\* tied to each class, are the same before and after the pass; every
\* non-representative member bit is the lhs of exactly one emitted connection
\* position, and the rhs of that position is its representative.
C20_ConnectivityPreserved ==
    [][(pc = "mw_emit") =>
          /\ \A b \in ModuleBits :
                /\ ClassOf(conns', b) = ClassOf(orig_conns, b)
                /\ ConstOf(conns', b) = ConstOf(orig_conns, b)
          /\ \A b \in DOMAIN repmap :
                /\ Cardinality(AppendedAt(b)) = 1
                /\ \A q \in AppendedAt(b) : Appended[q[1]][2][q[2]] = repmap[b]]_vars

\* C20 witness: the connections are emitted for a module in which two
\* members of one wire have representatives on two wires and a constant is
\* tied to a bit of a class with more than one bit
C20_Witness ==
    /\ pc = "mw_finish"
    /\ \E b \in DOMAIN repmap, c \in DOMAIN repmap :
          b # c /\ b[1] = c[1] /\ repmap[b][1] # repmap[c][1]
    /\ \E b \in DOMAIN repmap : ConstOf(orig_conns, b) # {}

====
